---- MODULE Spec2Model ----
(***************************************************************************)
(* Model of src/choice_models.py: the eligibility prefilter, the three     *)
(* choice models and the dispatcher that selects one of them by name.      *)
(*                                                                         *)
(* Tables (pandas DataFrames) are sequences of row records; row order is   *)
(* the order of the frame.  Sampling (DataFrame.sample, np.random.choice)  *)
(* is a nondeterministic choice among the outcomes of positive             *)
(* probability.  Weights and probabilities are exact rationals             *)
(* [num, den] in lowest terms; alpha is counted in tenths, and e^(-0.1)    *)
(* is represented by the rational EXP_TENTH, so that                       *)
(* exp(-alpha * p) = EXP_TENTH ^ (alpha_in_tenths * p).  float64 rounding  *)
(* (underflow of exp, absorption near 1) is outside this model.            *)
(***************************************************************************)
EXTENDS Integers, Sequences, FiniteSets, TLC

VARIABLES
    recommendations,    \* input batch: rows [user_id, item_id], order = rank
    demographics,       \* input table: rows [user_id, country]
    tracks,             \* input table indexed by item_id: rows [item_id, country]
    control_country,    \* prefilter argument (None, "" or a country code)
    choice_model,       \* dispatcher argument: the model name
    pc,                 \* "call" before the operation ran, "done" after
    filtered_recs,      \* value returned by prefilter_recommendations
    acceptances,        \* outcome of accept_new_recommendations
    alpha,              \* decay rate in tenths (weights specification)
    from_country,       \* per-candidate classification (weights specification)
    non_country_chance, \* rational in [0, 1] (weights specification)
    invert,             \* boolean (weights specification)
    done,               \* which of the two weight computations have run
    rb_w, rb_p_list,    \* rank-based weights and normalized probabilities
    cc_w, cc_p_list     \* country-centric weights and normalized probabilities

vars == <<recommendations, demographics, tracks, control_country, choice_model,
          pc, filtered_recs, acceptances, alpha, from_country,
          non_country_chance, invert, done, rb_w, rb_p_list, cc_w, cc_p_list>>

----------------------------------------------------------------------------
(* Bounds of the model *)

MaxRecs == 3

MaxAlphaTenths == 1

Users == {1, 2}

Items == {0, 1}

Countries == {"US", "AT"}

None == "None"

ValidModels == {"random", "rank_based", "us_centric", "non_us_centric"}

BogusModels == {"bogus", "Random"}

----------------------------------------------------------------------------
(* Exact rational arithmetic standing in for numpy's float arrays *)

RECURSIVE GCD(_, _)
GCD(a, b) == IF b = 0 THEN a ELSE GCD(b, a % b)

Rat(n, d) ==
    LET g == GCD(n, d) IN [num |-> n \div g, den |-> d \div g]

RZero == [num |-> 0, den |-> 1]

ROne == [num |-> 1, den |-> 1]

RAdd(x, y) ==
    LET l == (x.den \div GCD(x.den, y.den)) * y.den
    IN  Rat(x.num * (l \div x.den) + y.num * (l \div y.den), l)

RMul(x, y) ==
    LET a == Rat(x.num, y.den)
        b == Rat(y.num, x.den)
    IN  [num |-> a.num * b.num, den |-> a.den * b.den]

\* x / y for y > 0
RDiv(x, y) == RMul(x, [num |-> y.den, den |-> y.num])

RECURSIVE RPow(_, _)
RPow(x, n) == IF n = 0 THEN ROne ELSE RMul(x, RPow(x, n - 1))

RECURSIVE np_sum(_)
np_sum(s) == IF s = <<>> THEN RZero ELSE RAdd(Head(s), np_sum(Tail(s)))

\* np.max(p_list) == 0 for an array of non-negative weights
np_max_is_zero(s) == \A i \in DOMAIN s : s[i].num = 0

\* rational standing for e^(-0.1) = 0.9048...
EXP_TENTH == [num |-> 9, den |-> 10]

\* mutant of ranked_prob: the sign of the exponent is lost, exp(alpha * p)
ranked_prob_positive_exponent(p, a) ==
    RPow([num |-> EXP_TENTH.den, den |-> EXP_TENTH.num], a * p)

\* np.exp(-alpha * p), alpha in tenths
ranked_prob(p, a) == RPow(EXP_TENTH, a * p)

\* p_list / np.sum(p_list)
normalize(p_list) ==
    [i \in DOMAIN p_list |-> RDiv(p_list[i], np_sum(p_list))]

\* default of choice_model_rank_based's alpha: 0.1, in tenths
DEFAULT_ALPHA == 1

\* the literal 0.1 passed to ranked_prob inside country_centric, in tenths
COUNTRY_CENTRIC_ALPHA == 1

\* [ranked_prob(i, alpha) for i in range(1, len(recs) + 1)]
rank_based_weights(n, a) == [i \in 1..n |-> ranked_prob(i, a)]

rank_based_p_list(n, a) == normalize(rank_based_weights(n, a))

\* country_p_mod: one modifier per candidate
country_p_mod(fc, chance, inv) ==
    [i \in DOMAIN fc |->
        IF inv THEN (IF fc[i] THEN chance ELSE ROne)
               ELSE (IF fc[i] THEN ROne ELSE chance)]

\* p_list = ranked_p_list * country_p_mod; the parameter a (alpha) is accepted
\* by country_centric but the weights are built from the literal 0.1
country_centric_weights(fc, chance, inv, a) ==
    LET ranked_p_list == [i \in DOMAIN fc |-> ranked_prob(i, COUNTRY_CENTRIC_ALPHA)]
        mod == country_p_mod(fc, chance, inv)
    IN  [i \in DOMAIN fc |-> RMul(ranked_p_list[i], mod[i])]

----------------------------------------------------------------------------
(* Tables *)

RecRows == [user_id : Users, item_id : Items]

TrackRows == [item_id : Items, country : Countries]

DemographicRows == [user_id : Users, country : Countries]

SeqsUpTo(S, n) == UNION {[1..k -> S] : k \in 0..n}

\* recommendation batches: any rows, in any order
RecTables == SeqsUpTo(RecRows, MaxRecs)

\* tracks is indexed by item_id: one row per item_id, rows in any order
TrackTables ==
    {t \in SeqsUpTo(TrackRows, Cardinality(Items)) :
        \A i, j \in DOMAIN t : i # j => t[i].item_id # t[j].item_id}

\* demographics maps a user_id to its attributes: one row per user_id
DemographicTables ==
    {d \in SeqsUpTo(DemographicRows, Cardinality(Users)) :
        \A i, j \in DOMAIN d : i # j => d[i].user_id # d[j].user_id}

\* column labels of the demographics frame
demographics_columns == <<"user_id", "country">>

\* column labels of the frames the choice models return
acceptance_columns == <<"user_id", "item_id">>

----------------------------------------------------------------------------
(* prefilter_recommendations *)

\* Python values of the two types that meet in Series.isin
IntVal(n) == [type |-> "int", n |-> n, s |-> ""]

StrVal(s) == [type |-> "str", n |-> 0, s |-> s]

\* demographics.loc[demographics['country'] == control_country]
loc_country(demo, country) == SelectSeq(demo, LAMBDA r : r.country = country)

\* list(DataFrame): iterating a frame yields its column labels, whatever its rows
list_DataFrame(rows, columns) == [i \in DOMAIN columns |-> StrVal(columns[i])]

frozen_users(demo, country) ==
    list_DataFrame(loc_country(demo, country), demographics_columns)

\* Series.isin(values), elementwise
isin(v, values) == \E i \in DOMAIN values : values[i] = v

\* mutant of prefilter_recommendations: the negation of the isin mask is lost
prefilter_recommendations_no_negation(recs, demo, trk, country) ==
    IF country # None /\ country # ""
    THEN SelectSeq(recs, LAMBDA r : isin(IntVal(r.user_id), frozen_users(demo, country)))
    ELSE recs

prefilter_recommendations(recs, demo, trk, country) ==
    IF country # None /\ country # ""
    THEN SelectSeq(recs, LAMBDA r : ~isin(IntVal(r.user_id), frozen_users(demo, country)))
    ELSE recs

----------------------------------------------------------------------------
(* Choice models: each operator is the set of outcomes a call can produce *)

\* a returned frame
Returned(rows) ==
    [error |-> "None", message |-> <<>>, returned |-> TRUE,
     columns |-> acceptance_columns, rows |-> rows]

\* an exception that leaves the call: nothing is returned
Raised(error, message) ==
    [error |-> error, message |-> message, returned |-> FALSE,
     columns |-> <<>>, rows |-> <<>>]

RECURSIVE unique_consecutive(_)
\* mutant of unique: only runs of equal neighbours are collapsed
unique_consecutive(s) ==
    IF s = <<>> THEN <<>>
    ELSE IF Len(s) >= 2 /\ s[1] = s[2] THEN unique_consecutive(Tail(s))
    ELSE <<Head(s)>> \o unique_consecutive(Tail(s))

RECURSIVE unique(_)
\* Series.unique(): the distinct values in order of first appearance
unique(s) ==
    IF s = <<>> THEN <<>>
    ELSE LET h == Head(s)
         IN  <<h>> \o unique(SelectSeq(Tail(s), LAMBDA x : x # h))

\* recommendations['user_id'].unique()
user_ids(recs) == unique([i \in DOMAIN recs |-> recs[i].user_id])

\* recommendations.loc[recommendations['user_id'] == user_id]
recs_of(recs, user_id) == SelectSeq(recs, LAMBDA r : r.user_id = user_id)

RECURSIVE acc_list(_, _, _, _)
\* the rows appended to acc_list for users i..Len(users); pick[i] = 0 is the
\* `continue` of country_centric, otherwise the 1-based sampled position
acc_list(recs, users, pick, i) ==
    IF i > Len(users) THEN <<>>
    ELSE LET rest == acc_list(recs, users, pick, i + 1)
         IN  IF pick[i] = 0 THEN rest
             ELSE <<[user_id |-> users[i],
                     item_id |-> recs_of(recs, users[i])[pick[i]].item_id]>> \o rest

\* the functions that give every user one pick out of that user's support;
\* support[i] is the set of picks the sampling step of users[i] can produce
Picks(recs, users, support) ==
    {pick \in [1..Len(users) -> 0..Len(recs)] :
        \A i \in 1..Len(users) : pick[i] \in support[i]}

\* the positions np.random.choice can return: those of positive probability
positive(p_list) == {k \in DOMAIN p_list : p_list[k].num > 0}

\* mutant of choice_model_random: the loop starts at the second user
choice_model_random_skip_first(recs) ==
    LET all == user_ids(recs)
        users == IF all = <<>> THEN all ELSE Tail(all)
        support == [i \in DOMAIN users |-> 1..Len(recs_of(recs, users[i]))]
    IN  {Returned(acc_list(recs, users, pick, 1)) : pick \in Picks(recs, users, support)}

\* recs.sample(1): any row of the user's candidates
choice_model_random(recs) ==
    LET users == user_ids(recs)
        support == [i \in DOMAIN users |-> 1..Len(recs_of(recs, users[i]))]
    IN  {Returned(acc_list(recs, users, pick, 1)) : pick \in Picks(recs, users, support)}

\* np.random.choice(range(0, len(recs)), p=p_list)
choice_model_rank_based(recs, a) ==
    LET users == user_ids(recs)
        support ==
            [i \in DOMAIN users |->
                positive(rank_based_p_list(Len(recs_of(recs, users[i])), a))]
    IN  {Returned(acc_list(recs, users, pick, 1)) : pick \in Picks(recs, users, support)}

\* tracks.iloc[recs['item_id']] raises IndexError for a position past the last row
iloc_out_of_bounds(trk, rs) == \E i \in DOMAIN rs : rs[i].item_id >= Len(trk)

\* tracks.iloc[recs['item_id']]['country'] == country: iloc selects by 0-based
\* row position, so the row read for a candidate is row number item_id
from_country_of(trk, rs, country) ==
    [i \in DOMAIN rs |-> trk[rs[i].item_id + 1].country = country]

\* pick 0 stands for `continue`: np.max(p_list) == 0, no row is appended
country_centric(recs, trk, country, chance, inv, a) ==
    LET users == user_ids(recs)
        weights ==
            [i \in DOMAIN users |->
                country_centric_weights(
                    from_country_of(trk, recs_of(recs, users[i]), country),
                    chance, inv, a)]
        support ==
            [i \in DOMAIN users |->
                IF np_max_is_zero(weights[i]) THEN {0}
                ELSE positive(normalize(weights[i]))]
    IN  IF \E i \in DOMAIN users : iloc_out_of_bounds(trk, recs_of(recs, users[i]))
        THEN {Raised("IndexError", <<"positional", "indexers", "are", "out-of-bounds">>)}
        ELSE {Returned(acc_list(recs, users, pick, 1)) :
                 pick \in Picks(recs, users, support)}

\* mutant of Dispatch: an unknown name falls back to the random model
Dispatch_default_random(model, recs, demo, trk) ==
    CASE model = "rank_based" -> choice_model_rank_based(recs, DEFAULT_ALPHA)
      [] model = "us_centric" ->
            country_centric(recs, trk, "US", RZero, FALSE, DEFAULT_ALPHA)
      [] model = "non_us_centric" ->
            country_centric(recs, trk, "US", RZero, TRUE, DEFAULT_ALPHA)
      [] OTHER -> choice_model_random(recs)

\* the if/elif chain of accept_new_recommendations
Dispatch(model, recs, demo, trk) ==
    CASE model = "random" -> choice_model_random(recs)
      [] model = "rank_based" -> choice_model_rank_based(recs, DEFAULT_ALPHA)
      [] model = "us_centric" ->
            country_centric(recs, trk, "US", RZero, FALSE, DEFAULT_ALPHA)
      [] model = "non_us_centric" ->
            country_centric(recs, trk, "US", RZero, TRUE, DEFAULT_ALPHA)
      [] OTHER -> {Raised("NotImplementedError", <<"Unknown", "Choice", "model!">>)}

----------------------------------------------------------------------------
(* Specification of the prefilter: one call on arbitrary inputs *)

Unused == <<>>

WeightsUnused ==
    /\ alpha = 0
    /\ from_country = Unused
    /\ non_country_chance = RZero
    /\ invert = FALSE
    /\ done = {}
    /\ rb_w = Unused
    /\ rb_p_list = Unused
    /\ cc_w = Unused
    /\ cc_p_list = Unused

InitPrefilter ==
    /\ recommendations \in RecTables
    /\ demographics \in DemographicTables
    /\ tracks = Unused
    /\ control_country \in {None, ""} \cup Countries
    /\ choice_model = None
    /\ pc = "call"
    /\ filtered_recs = Unused
    /\ acceptances = Unused
    /\ WeightsUnused

call_prefilter_recommendations ==
    /\ pc = "call"
    /\ filtered_recs' =
           prefilter_recommendations(recommendations, demographics, tracks, control_country)
    /\ pc' = "done"
    /\ UNCHANGED <<recommendations, demographics, tracks, control_country, choice_model,
                   acceptances, alpha, from_country, non_country_chance, invert,
                   done, rb_w, rb_p_list, cc_w, cc_p_list>>

NextPrefilter == call_prefilter_recommendations

SpecPrefilter == InitPrefilter /\ [][NextPrefilter]_vars

----------------------------------------------------------------------------
(* Specification of the dispatcher: one call on arbitrary inputs *)

\* the dispatcher receives demographics and never reads it: a small sample
DispatchDemographics ==
    {d \in DemographicTables : Len(d) <= 1 /\ \A i \in DOMAIN d : d[i].country = "US"}

Init ==
    /\ recommendations \in RecTables
    /\ demographics \in DispatchDemographics
    /\ tracks \in TrackTables
    /\ control_country = None
    /\ choice_model \in ValidModels \cup BogusModels
    /\ pc = "call"
    /\ filtered_recs = Unused
    /\ acceptances = Unused
    /\ WeightsUnused

accept_new_recommendations ==
    /\ pc = "call"
    /\ \E out \in Dispatch(choice_model, recommendations, demographics, tracks) :
           acceptances' = out
    /\ pc' = "done"
    /\ UNCHANGED <<recommendations, demographics, tracks, control_country, choice_model,
                   filtered_recs, alpha, from_country, non_country_chance, invert,
                   done, rb_w, rb_p_list, cc_w, cc_p_list>>

Next == accept_new_recommendations

Spec == Init /\ [][Next]_vars

----------------------------------------------------------------------------
(* Specification of the weight vectors of the two rank-aware models *)

Chances == {RZero, [num |-> 1, den |-> 2], ROne}

InitWeights ==
    /\ recommendations = Unused
    /\ demographics = Unused
    /\ tracks = Unused
    /\ control_country = None
    /\ choice_model = None
    /\ pc = "call"
    /\ filtered_recs = Unused
    /\ acceptances = Unused
    /\ alpha \in 0..MaxAlphaTenths
    /\ from_country \in UNION {[1..n -> BOOLEAN] : n \in 1..MaxRecs}
    /\ non_country_chance \in Chances
    /\ invert \in BOOLEAN
    /\ done = {}
    /\ rb_w = Unused
    /\ rb_p_list = Unused
    /\ cc_w = Unused
    /\ cc_p_list = Unused

\* choice_model_rank_based, the weights and their normalization for one user
rank_based_step ==
    /\ "rank_based" \notin done
    /\ rb_w' = rank_based_weights(Len(from_country), alpha)
    /\ rb_p_list' = rank_based_p_list(Len(from_country), alpha)
    /\ done' = done \cup {"rank_based"}
    /\ UNCHANGED <<recommendations, demographics, tracks, control_country, choice_model,
                   pc, filtered_recs, acceptances, alpha, from_country,
                   non_country_chance, invert, cc_w, cc_p_list>>

\* country_centric, the weights and their normalization for one user; a user
\* whose weights are all zero is skipped and gets no distribution
country_centric_step ==
    /\ "country_centric" \notin done
    /\ LET w == country_centric_weights(from_country, non_country_chance, invert, alpha)
       IN  /\ cc_w' = w
           /\ cc_p_list' = IF np_max_is_zero(w) THEN <<>> ELSE normalize(w)
    /\ done' = done \cup {"country_centric"}
    /\ UNCHANGED <<recommendations, demographics, tracks, control_country, choice_model,
                   pc, filtered_recs, acceptances, alpha, from_country,
                   non_country_chance, invert, rb_w, rb_p_list>>

NextWeights == rank_based_step \/ country_centric_step

SpecWeights == InitWeights /\ [][NextWeights]_vars

----------------------------------------------------------------------------
(* Vocabulary of the properties *)

\* the users whose demographics row carries the given country
users_of_country(demo, country) ==
    {demo[i].user_id : i \in {j \in DOMAIN demo : demo[j].country = country}}

\* the country of the track whose item_id equals the given item_id (key lookup)
is_from(trk, item_id, country) ==
    \E i \in DOMAIN trk : trk[i].item_id = item_id /\ trk[i].country = country

\* every candidate item_id is an item_id of the tracks table
SchemaOk ==
    \A i \in DOMAIN recommendations :
        \E j \in DOMAIN tracks : tracks[j].item_id = recommendations[i].item_id

InputUsers == {recommendations[i].user_id : i \in DOMAIN recommendations}

OutputUsers == {acceptances.rows[i].user_id : i \in DOMAIN acceptances.rows}

CandidateItems(u) ==
    {recommendations[i].item_id :
        i \in {j \in DOMAIN recommendations : recommendations[j].user_id = u}}

AcceptedItems(u) ==
    {acceptances.rows[i].item_id :
        i \in {j \in DOMAIN acceptances.rows : acceptances.rows[j].user_id = u}}

\* x < y for rationals
RLess(x, y) ==
    LET l == (x.den \div GCD(x.den, y.den)) * y.den
    IN  x.num * (l \div x.den) < y.num * (l \div y.den)

\* the sum of a probability vector is exactly one
SumsToOne(p_list) == np_sum(p_list) = ROne

----------------------------------------------------------------------------
(* Properties of the prefilter, checked under SpecPrefilter *)

\* C1: with a non-empty control_country the result holds no row of a user whose
\* demographics country is control_country, and holds every input row of every
\* other user.
C1_ControlUsersRemoved ==
    (pc = "done" /\ control_country \notin {None, ""}) =>
        LET frozen == users_of_country(demographics, control_country)
            allowed(r) == r.user_id \notin frozen
        IN  /\ \A i \in DOMAIN filtered_recs : filtered_recs[i].user_id \notin frozen
            /\ SelectSeq(filtered_recs, allowed) = SelectSeq(recommendations, allowed)

\* C7: when control_country is None or demographics is empty, the call returns
\* exactly the rows of the input in the same order and leaves the input batch
\* as it was.
C7_IdentityWithoutControl ==
    [][(pc = "call" /\ (control_country = None \/ demographics = <<>>)) =>
           (filtered_recs' = recommendations /\ recommendations' = recommendations)]_vars

C7_Witness ==
    /\ pc = "done"
    /\ demographics = <<>>
    /\ control_country = "US"
    /\ Len(recommendations) >= 2
    /\ filtered_recs = recommendations

----------------------------------------------------------------------------
(* Properties of the dispatcher and the choice models, checked under Spec *)

\* C2 as stated: a model name outside the four valid names fails with an error
\* that names the offending identifier, and no table is returned.
C2_ErrorNamesIdentifier ==
    (pc = "done" /\ choice_model \notin ValidModels) =>
        /\ acceptances.error # "None"
        /\ ~acceptances.returned
        /\ \E i \in DOMAIN acceptances.message : acceptances.message[i] = choice_model

\* C2 as amended: a model name outside the four valid names fails with
\* NotImplementedError carrying the fixed message 'Unknown Choice model!',
\* whatever the identifier, and no table is returned.
C2_ErrorFixedMessage ==
    (pc = "done" /\ choice_model \notin ValidModels) =>
        /\ acceptances.error = "NotImplementedError"
        /\ acceptances.message = <<"Unknown", "Choice", "model!">>
        /\ ~acceptances.returned
        /\ acceptances.rows = <<>>

C2_Witness ==
    /\ pc = "done"
    /\ choice_model = "bogus"
    /\ Len(recommendations) >= 1
    /\ acceptances.error = "NotImplementedError"

\* C3: with us_centric, a candidate being classified by the track whose item_id
\* equals its item_id, the accepted item of a user that has a US candidate is a
\* US candidate of that user, and a user with no US candidate is absent.
C3_UsCentricAcceptsUs ==
    (pc = "done" /\ choice_model = "us_centric" /\ SchemaOk /\ acceptances.returned) =>
        \A u \in InputUsers :
            IF \E c \in CandidateItems(u) : is_from(tracks, c, "US")
            THEN \A a \in AcceptedItems(u) :
                     a \in CandidateItems(u) /\ is_from(tracks, a, "US")
            ELSE u \notin OutputUsers

\* C4: with each of the four valid names and an input that follows the schema,
\* the call never raises and returns a table with the columns user_id, item_id.
C4_ValidModelNeverRaises ==
    (pc = "done" /\ choice_model \in ValidModels /\ SchemaOk) =>
        /\ acceptances.error = "None"
        /\ acceptances.returned
        /\ acceptances.columns = <<"user_id", "item_id">>

\* C5: the output has at most one row per user_id, every output user_id occurs
\* in the input batch, and each output item_id is the item_id of one of that
\* user's candidate rows.
C5_OneCandidatePerUser ==
    (pc = "done" /\ acceptances.returned) =>
        /\ \A i, j \in DOMAIN acceptances.rows :
               acceptances.rows[i].user_id = acceptances.rows[j].user_id => i = j
        /\ \A i \in DOMAIN acceptances.rows :
               /\ acceptances.rows[i].user_id \in InputUsers
               /\ acceptances.rows[i].item_id \in CandidateItems(acceptances.rows[i].user_id)

C5_Witness ==
    /\ pc = "done"
    /\ choice_model = "non_us_centric"
    /\ acceptances.returned
    /\ Cardinality(InputUsers) = 2
    /\ Len(recommendations) = 3
    /\ Len(acceptances.rows) = 2

\* C6: with random and with rank_based the users of the output are exactly the
\* users of the input, one record each, whatever demographics contains.
C6_EveryUserAccepts ==
    (pc = "done" /\ choice_model \in {"random", "rank_based"}) =>
        /\ acceptances.returned
        /\ OutputUsers = InputUsers
        /\ Len(acceptances.rows) = Cardinality(InputUsers)

C6_Witness ==
    /\ pc = "done"
    /\ choice_model = "rank_based"
    /\ demographics # <<>>
    /\ Cardinality(InputUsers) = 2
    /\ Len(acceptances.rows) = 2

\* C8: with non_us_centric the accepted item of a user that has a non-US
\* candidate is never a US candidate, and a user is absent from the output
\* exactly when all of that user's candidates are US items.
C8_NonUsCentricAvoidsUs ==
    (pc = "done" /\ choice_model = "non_us_centric" /\ SchemaOk /\ acceptances.returned) =>
        \A u \in InputUsers :
            /\ (\E c \in CandidateItems(u) : ~is_from(tracks, c, "US")) =>
                   \A a \in AcceptedItems(u) : ~is_from(tracks, a, "US")
            /\ (u \notin OutputUsers) <=>
                   (\A c \in CandidateItems(u) : is_from(tracks, c, "US"))

----------------------------------------------------------------------------
(* Properties of the weight vectors, checked under SpecWeights *)

\* C9: for every alpha >= 0, country_centric with non_country_chance = 1 gives
\* each rank the weight choice_model_rank_based gives it with the same alpha,
\* and so the same normalized distribution.
C9_ChanceOneIsRankBased ==
    (done = {"rank_based", "country_centric"} /\ non_country_chance = ROne) =>
        /\ cc_w = rb_w
        /\ cc_p_list = rb_p_list

====
